---- MODULE Spec2Model ----
(***************************************************************************)
(* termpix (src/src/main.rs): image acquisition and size resolution.       *)
(*                                                                         *)
(* Numbers keep the widths the program gives them.  A u32 is the pair      *)
(* <<hi, lo>> of its 16-bit halves (value hi * 2^16 + lo), so that values  *)
(* up to 2^32 - 1 and the wrap of `h * 2` can be computed.  An f32 is the  *)
(* pair <<m, e>> (value m * 2^e) with m = 0 or 2^23 <= m < 2^24, and every *)
(* f32 operation rounds to nearest, ties to even, as IEEE 754 binary32     *)
(* does.  No operation of the program produces an infinity or a NaN for a  *)
(* decoded image (orig_width, orig_height > 0), so those are not encoded.  *)
(***************************************************************************)
EXTENDS Integers, Sequences, FiniteSets

\* Option<T>: None, or Some(x) holding x = Some(x)[1].
None == <<>>
Some(x) == <<x>>
Option(S) == {None} \cup {Some(x) : x \in S}

\* Result<T, E>
Ok(x) == <<"Ok", x>>
Err(e) == <<"Err", e>>

(***************************************************************************)
(* u32                                                                     *)
(***************************************************************************)
\* The u32 whose value is the natural n (n < 2^31).
U32(n) == <<n \div (2^16), n % (2^16)>>

\* u32::MAX, the value a float-to-u32 cast saturates to.
U32Max == <<2^16 - 1, 2^16 - 1>>

\* a <= b on u32
U32Le(a, b) == a[1] < b[1] \/ (a[1] = b[1] /\ a[2] <= b[2])

\* std::cmp::min on u32
min(a, b) == IF U32Le(a, b) THEN a ELSE b

\* `x * 2` on u32: the product modulo 2^32 ...
U32Mul2Wrapped(x) ==
    LET lo2 == x[2] * 2
    IN  <<(x[1] * 2 + lo2 \div (2^16)) % (2^16), lo2 % (2^16)>>

\* ... and whether the product overflowed.
U32Mul2Overflows(x) == x[1] >= 2^15

\* `u16 as u32`
U16AsU32(n) == <<0, n>>

(***************************************************************************)
(* f32                                                                     *)
(***************************************************************************)
\* Number of bits of the natural n (0 for 0).
RECURSIVE BitLen(_)
BitLen(n) == IF n = 0 THEN 0 ELSE 1 + BitLen(n \div 2)

\* q, or q + 1 when the discarded part rem (out of 2 * half) rounds up:
\* round to nearest, ties to even.
RoundEven(q, rem, half) ==
    IF rem > half \/ (rem = half /\ q % 2 = 1) THEN q + 1 ELSE q

\* The f32 nearest to n * 2^e, for a natural n < 2^30.
F32Round(n, e) ==
    IF n = 0 THEN <<0, 0>>
    ELSE LET len == BitLen(n)
         IN  IF len <= 24
             THEN <<n * 2^(24 - len), e - (24 - len)>>
             ELSE LET k == len - 24
                      q == RoundEven(n \div (2^k), n % (2^k), 2^(k - 1))
                  IN  IF q = 2^24 THEN <<2^23, e + k + 1>> ELSE <<q, e + k>>

\* `x as f32` for a u32 x.
U32AsF32(x) ==
    IF x[1] < 2^14
    THEN F32Round(x[1] * 2^16 + x[2], 0)
    ELSE \* 2^30 <= value < 2^32: drop k = 7..8 low bits, all of them in lo
         LET k == BitLen(x[1]) - 8
             q == RoundEven(x[1] * 2^(16 - k) + x[2] \div (2^k),
                            x[2] % (2^k), 2^(k - 1))
         IN  IF q = 2^24 THEN <<2^23, k + 1>> ELSE <<q, k>>

\* a * b on f32: the exact 48-bit product of the significands, in two
\* 24-bit halves, rounded to 24 bits.
F32Mul(a, b) ==
    IF a[1] = 0 \/ b[1] = 0 THEN <<0, 0>>
    ELSE LET a1 == a[1] \div (2^12)   a0 == a[1] % (2^12)
             b1 == b[1] \div (2^12)   b0 == b[1] % (2^12)
             mid == a1 * b0 + a0 * b1
             t   == a0 * b0 + (mid % (2^12)) * 2^12
             lo  == t % (2^24)
             hi  == a1 * b1 + mid \div (2^12) + t \div (2^24)
             e   == a[2] + b[2]
         IN  IF hi >= 2^23
             THEN LET q == RoundEven(hi, lo, 2^23)
                  IN  IF q = 2^24 THEN <<2^23, e + 25>> ELSE <<q, e + 24>>
             ELSE LET q == RoundEven(hi * 2 + lo \div (2^23), lo % (2^23), 2^22)
                  IN  IF q = 2^24 THEN <<2^23, e + 24>> ELSE <<q, e + 23>>

\* <<floor(q * 2^n + r * 2^n / d), remainder>> by binary long division
\* (r < d on entry).
RECURSIVE LongDiv(_, _, _, _)
LongDiv(q, r, d, n) ==
    IF n = 0 THEN <<q, r>>
    ELSE IF 2 * r >= d THEN LongDiv(2 * q + 1, 2 * r - d, d, n - 1)
                       ELSE LongDiv(2 * q, 2 * r, d, n - 1)

\* a / b on f32 (b # 0): the quotient of the significands to 24 bits,
\* rounded by the remainder.
F32Div(a, b) ==
    IF a[1] = 0 THEN <<0, 0>>
    ELSE LET n  == IF a[1] >= b[1] THEN 23 ELSE 24
             qr == LongDiv(a[1] \div b[1], a[1] % b[1], b[1], n)
             q  == RoundEven(qr[1], 2 * qr[2], b[1])
             e  == a[2] - b[2] - n
         IN  IF q = 2^24 THEN <<2^23, e + 1>> ELSE <<q, e>>

\* x + 0.5 on f32 (x >= 0): the exact sum, rounded.
F32AddHalf(x) ==
    IF x[1] = 0 THEN <<2^23, -24>>
    ELSE IF x[2] >= 1
    THEN x      \* x >= 2^24: 0.5 is less than half a unit in the last place
    ELSE IF x[2] = 0
    THEN F32Round(2 * x[1] + 1, -1)
    ELSE IF x[2] >= -29
    THEN F32Round(x[1] + 2^(-x[2] - 1), x[2])
    ELSE \* x < 2^-5: the sum lies in [0.5, 1), where the unit is 2^-24
         LET d == -24 - x[2]
             q == IF d > 24 THEN 0
                  ELSE RoundEven(x[1] \div (2^d), x[1] % (2^d), 2^(d - 1))
         IN  <<2^23 + q, -24>>

\* `x as u32` for an f32 x >= 0: truncation toward zero, saturating.
F32AsU32(x) ==
    IF x[2] >= 9 THEN U32Max
    ELSE IF x[2] = 8 THEN <<x[1] \div (2^8), (x[1] % (2^8)) * 2^8>>
    ELSE IF x[2] >= 0 THEN U32(x[1] * 2^x[2])
    ELSE IF x[2] <= -24 THEN U32(0)
    ELSE U32(x[1] \div (2^(-x[2])))

(***************************************************************************)
(* Size resolution                                                         *)
(***************************************************************************)
scale_dimension(other, orig_this, orig_other) ==
    F32AsU32(F32AddHalf(F32Div(F32Mul(U32AsF32(orig_this), U32AsF32(other)),
                               U32AsF32(orig_other))))

\* fit_to_size without the fall-back to the width-constrained fit.
fit_to_size_no_fallback(orig_width, orig_height, terminal_width, terminal_height, max_width, max_height) ==
    LET target_height == U32Mul2Wrapped(IF max_height # None
                                        THEN min(max_height[1], terminal_height)
                                        ELSE terminal_height)
    IN  <<scale_dimension(target_height, orig_width, orig_height), target_height>>

\* fit_to_size whose width-constrained fit forgets --max-width.
fit_to_size_uncapped_fallback(orig_width, orig_height, terminal_width, terminal_height, max_width, max_height) ==
    LET target_width == IF max_width # None
                        THEN min(max_width[1], terminal_width)
                        ELSE terminal_width
        target_height == U32Mul2Wrapped(IF max_height # None
                                        THEN min(max_height[1], terminal_height)
                                        ELSE terminal_height)
        calculated_width == scale_dimension(target_height, orig_width, orig_height)
    IN  IF U32Le(calculated_width, target_width)
        THEN <<calculated_width, target_height>>
        ELSE <<terminal_width,
               scale_dimension(terminal_width, orig_height, orig_width)>>

\* fit_to_size: the largest size of the image's aspect ratio inside the
\* terminal (in columns and rows), capped by --max-width / --max-height.
fit_to_size(orig_width, orig_height, terminal_width, terminal_height, max_width, max_height) ==
    LET target_width == IF max_width # None
                        THEN min(max_width[1], terminal_width)
                        ELSE terminal_width
        \* 2 pixels per terminal row
        target_height == U32Mul2Wrapped(IF max_height # None
                                        THEN min(max_height[1], terminal_height)
                                        ELSE terminal_height)
        calculated_width == scale_dimension(target_height, orig_width, orig_height)
    IN  IF U32Le(calculated_width, target_width)
        THEN <<calculated_width, target_height>>
        ELSE <<target_width,
               scale_dimension(target_width, orig_height, orig_width)>>

\* Outcomes of determine_size: a size, the exit(1) of the missing terminal
\* size, or the panic of an arithmetic overflow in a build with overflow
\* checks (without them the result wraps).  `queried` tells whether
\* terminal_size() was called; `size` is what it returned when it was.
Sized(wh, queried) == [outcome |-> "size", size |-> Some(wh), queried |-> queried]
Exit1 == [outcome |-> "exit", size |-> None, queried |-> TRUE]
Panic(queried) == [outcome |-> "panic", size |-> None, queried |-> queried]

\* determine_size that caps an explicit --width by --max-width.
determine_size_capped(args, orig_width, orig_height, size, overflow_checks) ==
    LET some_w == args.flag_width # None
        some_h == args.flag_height # None
        w == IF args.flag_max_width # None
             THEN min(args.flag_max_width[1], args.flag_width[1])
             ELSE args.flag_width[1]
        h == args.flag_height[1]
    IN  IF some_w /\ some_h
        THEN IF overflow_checks /\ U32Mul2Overflows(h)
             THEN Panic(FALSE)
             ELSE Sized(<<w, U32Mul2Wrapped(h)>>, FALSE)
        ELSE IF some_w
        THEN Sized(<<w, scale_dimension(w, orig_height, orig_width)>>, FALSE)
        ELSE IF some_h
        THEN IF overflow_checks /\ U32Mul2Overflows(h)
             THEN Panic(FALSE)
             ELSE Sized(<<scale_dimension(U32Mul2Wrapped(h), orig_width, orig_height),
                          U32Mul2Wrapped(h)>>, FALSE)
        ELSE IF size # None
        THEN IF size[1][2] = 0 /\ overflow_checks
             THEN Panic(TRUE)
             ELSE Sized(fit_to_size(orig_width, orig_height,
                                    U16AsU32(size[1][1]),
                                    U16AsU32((size[1][2] - 1) % (2^16)),
                                    args.flag_max_width, args.flag_max_height),
                        TRUE)
        ELSE Exit1

determine_size(args, orig_width, orig_height, size, overflow_checks) ==
    LET some_w == args.flag_width # None
        some_h == args.flag_height # None
        w == args.flag_width[1]
        h == args.flag_height[1]
    IN  IF some_w /\ some_h
        THEN IF overflow_checks /\ U32Mul2Overflows(h)
             THEN Panic(FALSE)
             ELSE Sized(<<w, U32Mul2Wrapped(h)>>, FALSE)
        ELSE IF some_w
        THEN Sized(<<w, scale_dimension(w, orig_height, orig_width)>>, FALSE)
        ELSE IF some_h
        THEN IF overflow_checks /\ U32Mul2Overflows(h)
             THEN Panic(FALSE)
             ELSE Sized(<<scale_dimension(U32Mul2Wrapped(h), orig_width, orig_height),
                          U32Mul2Wrapped(h)>>, FALSE)
        ELSE IF size # None
        THEN \* size = Some(<<terminal_width, terminal_height>>), both u16
             IF size[1][2] = 0 /\ overflow_checks
             THEN Panic(TRUE)
             ELSE Sized(fit_to_size(orig_width, orig_height,
                                    U16AsU32(size[1][1]),
                                    U16AsU32((size[1][2] - 1) % (2^16)),
                                    args.flag_max_width, args.flag_max_height),
                        TRUE)
        ELSE Exit1

(***************************************************************************)
(* Image acquisition                                                       *)
(***************************************************************************)
\* str::ends_with on strings held as sequences of characters.
ends_with(path, suffix) ==
    /\ Len(suffix) <= Len(path)
    /\ SubSeq(path, Len(path) - Len(suffix) + 1, Len(path)) = suffix

DotSvg == <<".", "s", "v", "g">>

\* LoadImageError
SvgError == "SvgError"
ImageError == "ImageError"

\* `Ok(image::open(path)?)`
image_open(file) ==
    IF file.open[1] = "Err"
    THEN [result |-> Err(ImageError), calls |-> <<"image::open: Err">>]
    ELSE [result |-> Ok(file.open[2]), calls |-> <<"image::open: Ok">>]

\* get_image on a file whose decoders answer as `file` tells: file.parse is
\* usvg's answer ("Ok" or "Err"), file.render is resvg's (None, or the
\* rendered image's dimensions) and file.open is image::open's (an error, or
\* the decoded image's dimensions).  `calls` lists the decoders called.
get_image(path, file) ==
    IF ends_with(path, DotSvg)
    THEN IF file.parse = "Err"
         THEN [result |-> Err(SvgError), calls |-> <<"usvg::Tree::from_file: Err">>]
         ELSE IF file.render # None
         THEN [result |-> Ok(file.render[1]),
               calls  |-> <<"usvg::Tree::from_file: Ok", "resvg::render: Some">>]
         ELSE LET opened == image_open(file)
              IN  [result |-> opened.result,
                   calls  |-> <<"usvg::Tree::from_file: Ok", "resvg::render: None">>
                              \o opened.calls]
    ELSE image_open(file)

\* get_filter that falls back to Gaussian for an unknown name.
get_filter_default(str) ==
    CASE str = "nearest"    -> Some("Nearest")
      [] str = "triangle"   -> Some("Triangle")
      [] str = "catmullrom" -> Some("CatmullRom")
      [] str = "gaussian"   -> Some("Gaussian")
      [] str = "lanczos3"   -> Some("Lanczos3")
      [] OTHER              -> Some("Gaussian")

get_filter(str) ==
    CASE str = "nearest"    -> Some("Nearest")
      [] str = "triangle"   -> Some("Triangle")
      [] str = "catmullrom" -> Some("CatmullRom")
      [] str = "gaussian"   -> Some("Gaussian")
      [] str = "lanczos3"   -> Some("Lanczos3")
      [] OTHER              -> None

(***************************************************************************)
(* Inputs                                                                  *)
(***************************************************************************)
MaxFlag == 1    \* --width / --height range over 0 .. MaxFlag and the samples
MaxCap  == 0    \* --max-width / --max-height range over 0 .. MaxCap and a sample
MaxOrig == 1    \* decoded images range over (1 .. MaxOrig)^2 and the samples
MaxTerm == 1    \* terminals range over (1 .. MaxTerm)^2 and the samples

Widths  == {U32(n) : n \in 0 .. MaxFlag} \cup {U32(40), U32(322)}
Heights == {U32(n) : n \in 0 .. MaxFlag} \cup {U32(10), <<2^15, 0>>}
Caps    == {U32(n) : n \in 0 .. MaxCap} \cup {U32(60)}

\* Dimensions of decoded images: both positive (no codec decodes an image of
\* width or height 0).
SampleDims ==
    {<<U32(1600), U32(900)>>, <<U32(2087), U32(28087)>>,
     <<U32(68675), U32(58774)>>, <<U32(1), U32(8388609)>>}
Dims == {<<U32(w), U32(h)>> : w \in 1 .. MaxOrig, h \in 1 .. MaxOrig} \cup SampleDims

\* resvg renders with FitTo::Width(1000): the width is 1000.
SvgDims == {<<U32(1000), U32(h)>> : h \in {1, 750}}

\* What the decoders answer for the file at arg_file.
Files ==
    [parse : {"Ok", "Err"}, render : {None} \cup {Some(d) : d \in SvgDims},
     open : {Err("decode")} \cup {Ok(d) : d \in Dims}]

\* terminal_size(): None, or columns and rows (u16), both positive when
\* reported.
TerminalSizes ==
    {None} \cup {Some(<<c, r>>) : c \in 1 .. MaxTerm, r \in 1 .. MaxTerm}
           \cup {Some(<<80, 25>>), Some(<<163, 96>>)}

FilterNames == {"lanczos3", "blur"}

Paths == {<<"a", ".", "p", "n", "g">>, <<"a", ".", "s", "v", "g">>}

\* The answers possible for the file at `path`: image::open picks its decoder
\* by the path's extension and has none for "svg".
FilesFor(path) ==
    {file \in Files : ends_with(path, DotSvg) => file.open[1] = "Err"}

\* The command lines docopt accepts: --true-color and --true-colour exclude
\* each other.
ArgsSet ==
    [flag_width : Option(Widths), flag_height : Option(Heights),
     flag_max_width : Option(Caps), flag_max_height : Option(Caps),
     flag_true_colour : {FALSE}, flag_true_color : BOOLEAN,
     flag_filter : Option(FilterNames), arg_file : Paths]

(***************************************************************************)
(* main                                                                    *)
(***************************************************************************)
VARIABLES
    args,       \* the parsed command line
    pc,         \* where main is: "filter", "get_image", "determine_size",
                \* "print_image", "done" (returned) or "exited"
    filter,     \* the resampling filter, once resolved
    loaded,     \* get_image's result, once called
    img,        \* the decoded image (its dimensions), once unwrapped
    surface,    \* terminal_size()'s answer, once asked
    size,       \* <<width, height>> from determine_size
    printed,    \* the arguments print_image was called with
    exit_code,  \* the process's exit status, once it ended
    stderr,     \* what was written to standard error
    trace       \* main's steps and the calls made to the libraries, in order

vars == <<args, pc, filter, loaded, img, surface, size, printed, exit_code,
          stderr, trace>>

Init ==
    /\ args \in ArgsSet
    /\ pc = "filter"
    /\ filter = None
    /\ loaded = None
    /\ img = None
    /\ surface = None
    /\ size = None
    /\ printed = None
    /\ exit_code = None
    /\ stderr = <<>>
    /\ trace = <<>>

\* std::process::exit(code), after writing msg to standard error
Exit(code, msg) ==
    /\ pc' = "exited"
    /\ exit_code' = Some(code)
    /\ stderr' = Append(stderr, msg)

\* main, lines 116-123
ResolveFilter ==
    /\ pc = "filter"
    /\ LET f == IF args.flag_filter = None THEN Some("Gaussian")
                ELSE get_filter(args.flag_filter[1])
       IN  IF f # None
           THEN /\ filter' = f
                /\ pc' = "get_image"
                /\ UNCHANGED <<exit_code, stderr>>
           ELSE /\ Exit(-1, "Unknow filter")
                /\ UNCHANGED filter
    /\ trace' = Append(trace, "filter")
    /\ UNCHANGED <<args, loaded, img, surface, size, printed>>

\* main's call of get_image going on with a 1 x 1 placeholder after an error.
GetImage_placeholder ==
    /\ pc = "get_image"
    /\ \E file \in FilesFor(args.arg_file) :
         LET got == get_image(args.arg_file, file)
         IN  /\ loaded' = Some(got.result)
             /\ trace' = trace \o <<"get_image">> \o got.calls
             /\ img' = IF got.result[1] = "Ok" THEN Some(got.result[2])
                       ELSE Some(<<U32(1), U32(1)>>)
             /\ stderr' = IF got.result[1] = "Ok" THEN stderr
                          ELSE Append(stderr, got.result[2])
             /\ pc' = "determine_size"
             /\ UNCHANGED exit_code
    /\ UNCHANGED <<args, filter, surface, size, printed>>

\* main, lines 125-128
GetImage ==
    /\ pc = "get_image"
    /\ \E file \in FilesFor(args.arg_file) :
         LET got == get_image(args.arg_file, file)
         IN  /\ loaded' = Some(got.result)
             /\ trace' = trace \o <<"get_image">> \o got.calls
             /\ IF got.result[1] = "Ok"
                THEN /\ img' = Some(got.result[2])
                     /\ pc' = "determine_size"
                     /\ UNCHANGED <<exit_code, stderr>>
                ELSE /\ Exit(-1, got.result[2])
                     /\ UNCHANGED img
    /\ UNCHANGED <<args, filter, surface, size, printed>>

\* main, lines 129-131
DetermineSize ==
    /\ pc = "determine_size"
    /\ \E terminal \in TerminalSizes, overflow_checks \in BOOLEAN :
         LET orig == img[1]     \* img.dimensions()
             got  == determine_size(args, orig[1], orig[2], terminal, overflow_checks)
         IN  /\ trace' = trace \o <<"determine_size">>
                         \o (IF got.queried THEN <<"terminal_size">> ELSE <<>>)
             /\ surface' = IF got.queried THEN Some(terminal) ELSE surface
             /\ CASE got.outcome = "size" ->
                       /\ size' = got.size
                       /\ pc' = "print_image"
                       /\ UNCHANGED <<exit_code, stderr>>
                  [] got.outcome = "exit" ->
                       /\ Exit(1, "could not determine terminal size")
                       /\ UNCHANGED size
                  [] got.outcome = "panic" ->
                       /\ Exit(101, "attempt to multiply with overflow")
                       /\ UNCHANGED size
    /\ UNCHANGED <<args, filter, loaded, img, printed>>

\* main, line 133
PrintImage ==
    /\ pc = "print_image"
    /\ printed' = Some([img |-> img[1],
                         true_colour |-> args.flag_true_colour \/ args.flag_true_color,
                         width |-> size[1][1], height |-> size[1][2],
                         filter |-> filter[1]])
    /\ trace' = Append(trace, "print_image")
    /\ pc' = "done"
    /\ exit_code' = Some(0)
    /\ UNCHANGED <<args, filter, loaded, img, surface, size, stderr>>

Next == ResolveFilter \/ GetImage \/ DetermineSize \/ PrintImage

Spec == Init /\ [][Next]_vars

(***************************************************************************)
(* Properties                                                              *)
(*                                                                         *)
(* The properties speak of sizes as naturals, with the exact rounding      *)
(* floor(a * b / c + 1/2) of the specification.                            *)
(***************************************************************************)
\* The value of a u32 below 2^31.
Val(u) == u[1] * 2^16 + u[2]
IsSmall(u) == u[1] < 2^15

\* a * b is below 2^31
ProductFits(a, b) == a = 0 \/ b <= (2^30 - 1 + 2^30) \div a

\* floor(a * b / c + 1/2), exactly
RoundHalfUp(a, b, c) ==
    LET p == a * b
    IN  p \div c + (IF (p % c) >= c - (p % c) THEN 1 ELSE 0)

Min(a, b) == IF a <= b THEN a ELSE b

Has(seq, x) == \E i \in 1 .. Len(seq) : seq[i] = x
Count(seq, x) == Cardinality({i \in 1 .. Len(seq) : seq[i] = x})

GivenWidth == args.flag_width # None
GivenHeight == args.flag_height # None
OrigWidth == Val(img[1][1])
OrigHeight == Val(img[1][2])

\* determine_size has returned a size
Resolved == size # None

\* The box of the fit, from the command line and the reported terminal.
Columns == surface[1][1][1]
Rows == surface[1][1][2]
UsableRows == Rows - 1
TargetWidth ==
    IF args.flag_max_width # None
    THEN Min(Val(args.flag_max_width[1]), Columns) ELSE Columns
TargetHeightPx ==
    2 * (IF args.flag_max_height # None
         THEN Min(Val(args.flag_max_height[1]), UsableRows) ELSE UsableRows)

\* determine_size took the fit-to-terminal path and the terminal answered
Fitted == Resolved /\ surface # None /\ surface[1] # None

\* C1: the width and the height handed to print_image are both positive.
C1_RenderedSizePositive ==
    printed # None =>
        /\ printed[1].width # U32(0)
        /\ printed[1].height # U32(0)

\* C2: when the path ends in ".svg", the document parses and resvg renders
\* no image, get_image returns SvgError and image::open is never called.
C2_RenderNoneIsSvgError ==
    Has(trace, "resvg::render: None") =>
        /\ loaded = Some(Err(SvgError))
        /\ ~Has(trace, "image::open: Ok")
        /\ ~Has(trace, "image::open: Err")

\* C3: with exactly one of --width W / --height H, the size is
\* (W, floor(orig_height * W / orig_width + 1/2)), or
\* (floor(orig_width * 2H / orig_height + 1/2), 2H), on the exact ratio
\* (stated wherever the model's integers hold the exact product).
C3_SingleExplicitRoundsExactRatio ==
    /\ (Resolved /\ GivenWidth /\ ~GivenHeight
          /\ IsSmall(img[1][1]) /\ IsSmall(img[1][2])
          /\ ProductFits(OrigHeight, Val(args.flag_width[1])))
       => size[1] = <<args.flag_width[1],
                      U32(RoundHalfUp(OrigHeight, Val(args.flag_width[1]), OrigWidth))>>
    /\ (Resolved /\ ~GivenWidth /\ GivenHeight
          /\ IsSmall(img[1][1]) /\ IsSmall(img[1][2])
          /\ args.flag_height[1][1] < 2^14
          /\ ProductFits(OrigWidth, 2 * Val(args.flag_height[1])))
       => size[1] = <<U32(RoundHalfUp(OrigWidth, 2 * Val(args.flag_height[1]), OrigHeight)),
                      U32(2 * Val(args.flag_height[1]))>>

\* C4: with --width W and --height H, determine_size returns (W, 2 * H),
\* for every u32 W and H: the height's halves are those of the number 2 * H.
C4_BothExplicitIsWAnd2H ==
    (GivenWidth /\ GivenHeight /\ Has(trace, "determine_size")) =>
        /\ Resolved
        /\ size[1][1] = args.flag_width[1]
        /\ size[1][2][2] = (2 * args.flag_height[1][2]) % (2^16)
        /\ size[1][2][1] = 2 * args.flag_height[1][1]
                           + (2 * args.flag_height[1][2]) \div (2^16)

\* C5: for a positive image and a positive box, the fit lies inside the box:
\* w <= target_width and h <= target_height_px.
C5_FitWithinBox ==
    (Fitted /\ TargetWidth > 0 /\ TargetHeightPx > 0) =>
        /\ Val(size[1][1]) <= TargetWidth
        /\ Val(size[1][2]) <= TargetHeightPx

\* C5's case: the width-constrained fit of a 1600 x 900 image in 80 x 25.
C5_Witness ==
    /\ Fitted /\ pc = "done"
    /\ img = Some(<<U32(1600), U32(900)>>)
    /\ surface = Some(Some(<<80, 25>>))
    /\ args.flag_max_width = None /\ args.flag_max_height = None
    /\ size = Some(<<U32(80), U32(45)>>)

\* C6: for a positive image and a positive box, the fit fills the box on an
\* axis: w = target_width or h = target_height_px.
C6_FitFillsAnAxis ==
    (Fitted /\ TargetWidth > 0 /\ TargetHeightPx > 0) =>
        \/ Val(size[1][1]) = TargetWidth
        \/ Val(size[1][2]) = TargetHeightPx

\* C6's case: --max-width 60 makes the fit of 1600 x 900 in 80 x 25
\* width-constrained at the cap.
C6_Witness ==
    /\ Fitted /\ pc = "done"
    /\ img = Some(<<U32(1600), U32(900)>>)
    /\ surface = Some(Some(<<80, 25>>))
    /\ args.flag_max_width = Some(U32(60)) /\ args.flag_max_height = None
    /\ size = Some(<<U32(60), U32(34)>>)

\* C7: with neither --width nor --height and a reported terminal, the size
\* is (candidate_width, target_height_px) when candidate_width =
\* round(orig_width * target_height_px / orig_height) <= target_width, and
\* (target_width, round(orig_height * target_width / orig_width)) otherwise,
\* with usable_rows = rows - 1 >= 0 (stated wherever the model's integers
\* hold the exact products).
C7_FitToSurfaceExact ==
    (Fitted /\ IsSmall(img[1][1]) /\ IsSmall(img[1][2])
       /\ ProductFits(OrigWidth, TargetHeightPx)
       /\ ProductFits(OrigHeight, TargetWidth)) =>
        /\ UsableRows >= 0
        /\ LET candidate_width == RoundHalfUp(OrigWidth, TargetHeightPx, OrigHeight)
           IN  size[1] = IF candidate_width <= TargetWidth
                         THEN <<U32(candidate_width), U32(TargetHeightPx)>>
                         ELSE <<U32(TargetWidth),
                                U32(RoundHalfUp(OrigHeight, TargetWidth, OrigWidth))>>

RecognizedFilters == {"nearest", "triangle", "catmullrom", "gaussian", "lanczos3"}

\* C8: with a --filter outside the five names the run reports it and exits
\* with a nonzero status before get_image: no decoder is called and nothing
\* is rendered.  Without --filter the filter is Gaussian and the run goes on
\* to get_image.
C8_UnknownFilterExitsFirst ==
    /\ (args.flag_filter # None /\ args.flag_filter[1] \notin RecognizedFilters
          /\ pc # "filter")
       => /\ pc = "exited"
          /\ exit_code # None /\ exit_code[1] # 0
          /\ stderr = <<"Unknow filter">>
          /\ trace = <<"filter">>
          /\ loaded = None /\ img = None /\ printed = None
    /\ (args.flag_filter = None /\ pc # "filter")
       => /\ filter = Some("Gaussian")
          /\ pc # "get_image" => Has(trace, "get_image")

\* C8's case: the run of --filter blur has ended.
C8_Witness ==
    /\ args.flag_filter = Some("blur")
    /\ pc = "exited"

MainSteps == {"filter", "get_image", "determine_size", "print_image"}
IsMainStep(s) == s \in MainSteps
StepOrder == <<"filter", "get_image", "determine_size", "print_image">>

\* C10: main's steps run in the order filter, get_image, determine_size,
\* print_image; after an error of get_image the process has exited with a
\* nonzero status and neither determine_size nor print_image was called;
\* print_image is called at most once, after a decoded image and a size.
C10_StepOrderAndFatalLoadError ==
    /\ LET steps == SelectSeq(trace, IsMainStep)
       IN  /\ Len(steps) <= Len(StepOrder)
           /\ steps = SubSeq(StepOrder, 1, Len(steps))
    /\ (loaded # None /\ loaded[1][1] = "Err")
       => /\ pc = "exited"
          /\ exit_code # None /\ exit_code[1] # 0
          /\ ~Has(trace, "determine_size") /\ ~Has(trace, "print_image")
          /\ img = None /\ size = None /\ printed = None
    /\ Count(trace, "print_image") <= 1
    /\ (printed # None \/ Has(trace, "print_image"))
       => /\ loaded # None /\ loaded[1][1] = "Ok"
          /\ img = Some(loaded[1][2])
          /\ Resolved
          /\ printed[1].img = img[1]
          /\ printed[1].width = size[1][1] /\ printed[1].height = size[1][2]

\* C10's case: get_image failed with an ImageError and the process exited.
C10_Witness ==
    /\ loaded = Some(Err(ImageError))
    /\ pc = "exited"

====
